---- MODULE Spec2Model ----
(***************************************************************************)
(* Model of the hash-consed regular-expression store of derivre            *)
(* (controllers/derivre/src/ast.rs): ExprSet, its packed records and its   *)
(* normalising smart constructors.                                         *)
(*                                                                         *)
(* A record is a sequence of 32-bit words.  TLC's integers are 32-bit      *)
(* signed, so a u32 word is kept as a pair <<high, low>> of 16-bit limbs;  *)
(* all u32 arithmetic and comparisons are done on the limbs, which keeps   *)
(* the full width (u32::MAX is <<65535, 65535>>).                          *)
(***************************************************************************)
EXTENDS Naturals, Sequences, FiniteSets

VARIABLES exprs, alphabet_size, alphabet_words, overflow_checks, issued, panicked, last

vars == <<exprs, alphabet_size, alphabet_words, overflow_checks, issued, panicked, last>>

(***************************************************************************)
(* Bounds of the model.                                                    *)
(***************************************************************************)
\* records the store may hold before the model stops calling constructors
MaxLen == 7
\* longest argument list passed to mk_or / mk_and / mk_concat
MaxArgs == 3
\* the alphabet size handed to ExprSet::new
AlphabetSize == 256

(***************************************************************************)
(* u32 words as limb pairs.                                                *)
(***************************************************************************)
Limb == 65536

W(n) == <<n \div Limb, n % Limb>>

Val(w) == w[1] * Limb + w[2]

U32_MAX == <<Limb - 1, Limb - 1>>

U32Gt(x, y) == x[1] > y[1] \/ (x[1] = y[1] /\ x[2] > y[2])

U32Overflows(x) == x = U32_MAX

\* x + 1 in a build without overflow checks
WrappingInc(x) ==
    IF x[2] + 1 < Limb THEN <<x[1], x[2] + 1>>
    ELSE IF x[1] + 1 < Limb THEN <<x[1] + 1, 0>>
    ELSE <<0, 0>>

(***************************************************************************)
(* ExprRef constants, tags and flags.                                      *)
(***************************************************************************)
INVALID == 0
EMPTY_STRING == 1
NO_MATCH == 2
ANY_BYTE == 3
ANY_STRING == 4
NON_EMPTY_STRING == 5

TagEmptyString == 1
TagNoMatch == 2
TagByte == 3
TagByteSet == 4
TagNot == 5
TagRepeat == 6
TagConcat == 7
TagOr == 8
TagAnd == 9

NULLABLE == 256
ZERO == 0

\* ExprFlags::is_nullable: self.0 & NULLABLE != 0 (bit 8)
flags_is_nullable(f) == (f \div NULLABLE) % 2 = 1

from_nullable(nullable) == IF nullable THEN NULLABLE ELSE ZERO

\* flags | tag: the flags have their low 8 bits clear and a tag is below 256,
\* so the bitwise or is the sum
encode(f, tag) == W(f + tag)

(***************************************************************************)
(* Expr: the decoded view of a record.                                     *)
(***************************************************************************)
EmptyString == [tag |-> TagEmptyString]
NoMatch == [tag |-> TagNoMatch]
Byte(b) == [tag |-> TagByte, b |-> b]
ByteSet(s) == [tag |-> TagByteSet, s |-> s]
Not(f, e) == [tag |-> TagNot, flags |-> f, e |-> e]
Repeat(f, e, a, b) == [tag |-> TagRepeat, flags |-> f, e |-> e, min |-> a, max |-> b]
Concat(f, es) == [tag |-> TagConcat, flags |-> f, es |-> es]
Or(f, es) == [tag |-> TagOr, flags |-> f, es |-> es]
And(f, es) == [tag |-> TagAnd, flags |-> f, es |-> es]

RefWords(es) == [i \in 1..Len(es) |-> W(es[i])]

WordRefs(ws) == [i \in 1..Len(ws) |-> Val(ws[i])]

nary_serialize(tagword, es) == <<tagword>> \o RefWords(es)

serialize(x) ==
    CASE x.tag = TagEmptyString -> <<encode(ZERO, TagEmptyString)>>
      [] x.tag = TagNoMatch -> <<encode(ZERO, TagNoMatch)>>
      [] x.tag = TagByte -> <<encode(ZERO, TagByte), W(x.b)>>
      [] x.tag = TagByteSet -> <<encode(ZERO, TagByteSet)>> \o x.s
      [] x.tag = TagNot -> <<encode(x.flags, TagNot), W(x.e)>>
      [] x.tag = TagRepeat -> <<encode(x.flags, TagRepeat), W(x.e), x.min, x.max>>
      [] x.tag = TagConcat -> nary_serialize(encode(x.flags, TagConcat), x.es)
      [] x.tag = TagOr -> nary_serialize(encode(x.flags, TagOr), x.es)
      [] x.tag = TagAnd -> nary_serialize(encode(x.flags, TagAnd), x.es)

\* s[0] & 0xff and s[0] & !0xff of the first word
WordTag(w) == w[2] % 256

WordFlags(w) == Val(w) - WordTag(w)

Tail1(ws) == SubSeq(ws, 2, Len(ws))

from_slice(ws) ==
    LET flags == WordFlags(ws[1])
        tag == WordTag(ws[1])
    IN CASE tag = TagEmptyString -> EmptyString
         [] tag = TagNoMatch -> NoMatch
         [] tag = TagByte -> Byte(ws[2][2] % 256)
         [] tag = TagByteSet -> ByteSet(Tail1(ws))
         [] tag = TagNot -> Not(flags, Val(ws[2]))
         [] tag = TagRepeat -> Repeat(flags, Val(ws[2]), ws[3], ws[4])
         [] tag = TagConcat -> Concat(flags, WordRefs(Tail1(ws)))
         [] tag = TagOr -> Or(flags, WordRefs(Tail1(ws)))
         [] tag = TagAnd -> And(flags, WordRefs(Tail1(ws)))

\* Expr::get_flags / Expr::nullable on a decoded view
expr_get_flags(x) ==
    IF x.tag \in {TagEmptyString, TagNoMatch, TagByte, TagByteSet} THEN ZERO ELSE x.flags

expr_nullable(x) == flags_is_nullable(expr_get_flags(x))

(***************************************************************************)
(* The record heap (hashcons::VecHashMap): Ref r is the r-th record.  A    *)
(* result carries the Ref, the heap afterwards and, in ins, the word       *)
(* sequences that were handed to insert.                                   *)
(***************************************************************************)
insert(s, ws) ==
    IF \E i \in 1..Len(s) : s[i] = ws
    THEN [ref |-> CHOOSE i \in 1..Len(s) : s[i] = ws, exprs |-> s, panic |-> FALSE,
          ins |-> <<ws>>]
    ELSE [ref |-> Len(s) + 1, exprs |-> Append(s, ws), panic |-> FALSE, ins |-> <<ws>>]

\* mk that pushes the record without asking the heap for an equal one
mk_push(s, x) ==
    [ref |-> Len(s) + 1, exprs |-> Append(s, serialize(x)), panic |-> FALSE,
     ins |-> <<serialize(x)>>]

\* mk that writes a new record over the newest slot instead of behind it
mk_overwrite(s, x) ==
    LET ws == serialize(x)
    IN IF \E i \in 1..Len(s) : s[i] = ws THEN insert(s, ws)
       ELSE [ref |-> Len(s), exprs |-> [s EXCEPT ![Len(s)] = ws], panic |-> FALSE,
             ins |-> <<ws>>]

mk(s, x) == insert(s, serialize(x))

get(s, id) == from_slice(s[id])

get_flags(s, id) == WordFlags(s[id][1])

get_tag(s, id) == WordTag(s[id][1])

\* get_args that slices the single child one word too early
get_args_off_by_one(s, id) ==
    LET tag == get_tag(s, id)
    IN IF tag \in {TagConcat, TagOr, TagAnd} THEN WordRefs(Tail1(s[id]))
       ELSE IF tag \in {TagNot, TagRepeat} THEN WordRefs(SubSeq(s[id], 1, 1))
       ELSE <<>>

get_args(s, id) ==
    LET tag == get_tag(s, id)
    IN IF tag \in {TagConcat, TagOr, TagAnd} THEN WordRefs(Tail1(s[id]))
       ELSE IF tag \in {TagNot, TagRepeat} THEN WordRefs(SubSeq(s[id], 2, 2))
       ELSE <<>>

is_nullable(s, id) == flags_is_nullable(get_flags(s, id))

(***************************************************************************)
(* Smart constructors.  Each is a function of the store s and its          *)
(* arguments and yields the returned Ref, the store after the call and     *)
(* whether the call panicked.                                              *)
(***************************************************************************)
Ret(s, r) == [ref |-> r, exprs |-> s, panic |-> FALSE, ins |-> <<>>]

Panic(s) == [ref |-> INVALID, exprs |-> s, panic |-> TRUE, ins |-> <<>>]

mk_byte(s, b) == mk(s, Byte(b))

\* mk_byte_set without the test for the empty set
mk_byte_set_keep_zero(s, aw, bits) ==
    IF Len(bits) # aw THEN Panic(s) ELSE mk(s, ByteSet(bits))

mk_byte_set(s, aw, bits) ==
    IF Len(bits) # aw THEN Panic(s)
    ELSE IF \A i \in 1..Len(bits) : bits[i] = W(0) THEN Ret(s, NO_MATCH)
    ELSE mk(s, ByteSet(bits))

\* mk_repeat that clamps min for a nullable e before it compares min and max
mk_repeat_clamp_first(s, e, min, max, checks) ==
    LET min2 == IF is_nullable(s, e) THEN W(0) ELSE min
    IN IF e = NO_MATCH THEN
           IF min = W(0) THEN Ret(s, EMPTY_STRING) ELSE Ret(s, NO_MATCH)
       ELSE IF min2 = max THEN Ret(s, EMPTY_STRING)
       ELSE IF U32Overflows(min2) /\ checks THEN Panic(s)
       ELSE IF WrappingInc(min2) = max THEN Ret(s, e)
       ELSE IF U32Gt(min2, max) THEN Ret(s, NO_MATCH)
       ELSE mk(s, Repeat(from_nullable(min2 = W(0)), e, min2, max))

\* mk_repeat that keeps min as given when e is nullable
mk_repeat_no_clamp(s, e, min, max, checks) ==
    IF e = NO_MATCH THEN
        IF min = W(0) THEN Ret(s, EMPTY_STRING) ELSE Ret(s, NO_MATCH)
    ELSE IF min = max THEN Ret(s, EMPTY_STRING)
    ELSE IF U32Overflows(min) /\ checks THEN Panic(s)
    ELSE IF WrappingInc(min) = max THEN Ret(s, e)
    ELSE IF U32Gt(min, max) THEN Ret(s, NO_MATCH)
    ELSE mk(s, Repeat(from_nullable(min = W(0)), e, min, max))

\* checks: the build panics on overflow of min + 1 (debug profile); otherwise
\* the addition wraps (release profile)
mk_repeat(s, e, min, max, checks) ==
    IF e = NO_MATCH THEN
        IF min = W(0) THEN Ret(s, EMPTY_STRING) ELSE Ret(s, NO_MATCH)
    ELSE IF min = max THEN Ret(s, EMPTY_STRING)
    ELSE IF U32Overflows(min) /\ checks THEN Panic(s)
    ELSE IF WrappingInc(min) = max THEN Ret(s, e)
    ELSE IF U32Gt(min, max) THEN Ret(s, NO_MATCH)
    ELSE LET min2 == IF is_nullable(s, e) THEN W(0) ELSE min
             flags == from_nullable(min2 = W(0))
         IN mk(s, Repeat(flags, e, min2, max))

mk_star(s, e, checks) == mk_repeat(s, e, W(0), U32_MAX, checks)

mk_plus(s, e, checks) == mk_repeat(s, e, W(1), U32_MAX, checks)

RECURSIVE flatten_rest(_, _, _, _, _)
\* the inner loop of flatten_tag, from index i on, with res built so far
flatten_rest(s, exp_tag, args, i, res) ==
    IF i > Len(args) THEN res
    ELSE flatten_rest(s, exp_tag, args, i + 1,
            IF get_tag(s, args[i]) # exp_tag THEN Append(res, args[i])
            ELSE res \o get_args(s, args[i]))

\* flatten_tag that splices nothing
flatten_tag_none(s, exp_tag, args) == args

flatten_tag(s, exp_tag, args) ==
    LET hits == {i \in 1..Len(args) : get_tag(s, args[i]) = exp_tag}
    IN IF hits = {} THEN args
       ELSE LET i0 == CHOOSE i \in hits : \A j \in hits : i <= j
            IN flatten_rest(s, exp_tag, args, i0, SubSeq(args, 1, i0 - 1))

RECURSIVE InsertSorted(_, _)
\* insert x behind every element <= x of the ascending sequence xs
InsertSorted(xs, x) ==
    IF xs = <<>> THEN <<x>>
    ELSE IF xs[Len(xs)] <= x THEN Append(xs, x)
    ELSE Append(InsertSorted(SubSeq(xs, 1, Len(xs) - 1), x), xs[Len(xs)])

\* the sort left out
sort_by_key_none(args) == args

RECURSIVE sort_by_key(_)
\* args.sort_by_key(|&e| e.0): stable ascending sort
sort_by_key(args) ==
    IF args = <<>> THEN <<>>
    ELSE InsertSorted(sort_by_key(SubSeq(args, 1, Len(args) - 1)), args[Len(args)])

RECURSIVE or_loop(_, _, _, _, _, _)
\* the sweep of mk_or from index idx on: out is args[0..dp]
or_loop(s, args, idx, out, prev, nullable) ==
    IF idx > Len(args) THEN [early |-> FALSE, args |-> out, nullable |-> nullable]
    ELSE LET arg == args[idx]
         IN IF arg = prev \/ arg = NO_MATCH
            THEN or_loop(s, args, idx + 1, out, prev, nullable)
            ELSE IF arg = ANY_STRING
            THEN [early |-> TRUE, args |-> out, nullable |-> nullable]
            ELSE or_loop(s, args, idx + 1, Append(out, arg), arg,
                         nullable \/ is_nullable(s, arg))

\* mk_or without the reduction of a single survivor to that survivor
mk_or_no_arity(s, args0) ==
    LET args == sort_by_key(flatten_tag(s, TagOr, args0))
        r == or_loop(s, args, 1, <<>>, NO_MATCH, FALSE)
    IN IF r.early THEN Ret(s, ANY_STRING)
       ELSE IF Len(r.args) = 0 THEN Ret(s, NO_MATCH)
       ELSE mk(s, Or(from_nullable(r.nullable), r.args))

mk_or(s, args0) ==
    LET args == sort_by_key(flatten_tag(s, TagOr, args0))
        r == or_loop(s, args, 1, <<>>, NO_MATCH, FALSE)
    IN IF r.early THEN Ret(s, ANY_STRING)
       ELSE IF Len(r.args) = 0 THEN Ret(s, NO_MATCH)
       ELSE IF Len(r.args) = 1 THEN Ret(s, r.args[1])
       ELSE mk(s, Or(from_nullable(r.nullable), r.args))

RECURSIVE and_loop(_, _, _, _, _, _, _)
\* the sweep of mk_and from index idx on
and_loop(s, args, idx, out, prev, had_empty, nullable) ==
    IF idx > Len(args)
    THEN [early |-> FALSE, args |-> out, had_empty |-> had_empty, nullable |-> nullable]
    ELSE LET arg == args[idx]
         IN IF arg = prev \/ arg = ANY_STRING
            THEN and_loop(s, args, idx + 1, out, prev, had_empty, nullable)
            ELSE IF arg = NO_MATCH
            THEN [early |-> TRUE, args |-> out, had_empty |-> had_empty,
                  nullable |-> nullable]
            ELSE and_loop(s, args, idx + 1, Append(out, arg), arg,
                          had_empty \/ arg = EMPTY_STRING,
                          nullable /\ is_nullable(s, arg))

\* mk_and without the case of an EmptyString among the survivors
mk_and_keep_empty(s, args0) ==
    LET args == sort_by_key(flatten_tag(s, TagAnd, args0))
        r == and_loop(s, args, 1, <<>>, ANY_STRING, FALSE, TRUE)
    IN IF r.early THEN Ret(s, NO_MATCH)
       ELSE IF Len(r.args) = 0 THEN Ret(s, ANY_STRING)
       ELSE IF Len(r.args) = 1 THEN Ret(s, r.args[1])
       ELSE mk(s, And(from_nullable(r.nullable), r.args))

mk_and(s, args0) ==
    LET args == sort_by_key(flatten_tag(s, TagAnd, args0))
        r == and_loop(s, args, 1, <<>>, ANY_STRING, FALSE, TRUE)
    IN IF r.early THEN Ret(s, NO_MATCH)
       ELSE IF Len(r.args) = 0 THEN Ret(s, ANY_STRING)
       ELSE IF Len(r.args) = 1 THEN Ret(s, r.args[1])
       ELSE IF r.had_empty THEN
            IF r.nullable THEN Ret(s, EMPTY_STRING) ELSE Ret(s, NO_MATCH)
       ELSE mk(s, And(from_nullable(r.nullable), r.args))

\* the retain left out
retain_all(args) == args

\* args.retain(|&e| e != EMPTY_STRING)
retain_non_empty(args) == SelectSeq(args, LAMBDA e : e # EMPTY_STRING)

\* mk_concat that sorts its arguments as mk_or and mk_and do
mk_concat_sorted(s, args0) ==
    LET args == sort_by_key(retain_non_empty(flatten_tag(s, TagConcat, args0)))
    IN IF Len(args) = 0 THEN Ret(s, EMPTY_STRING)
       ELSE IF Len(args) = 1 THEN Ret(s, args[1])
       ELSE IF \E i \in 1..Len(args) : args[i] = NO_MATCH THEN Ret(s, NO_MATCH)
       ELSE mk(s, Concat(from_nullable(\A i \in 1..Len(args) : is_nullable(s, args[i])),
                         args))

\* mk_concat without the test for a NoMatch argument
mk_concat_keep_no_match(s, args0) ==
    LET args == retain_non_empty(flatten_tag(s, TagConcat, args0))
    IN IF Len(args) = 0 THEN Ret(s, EMPTY_STRING)
       ELSE IF Len(args) = 1 THEN Ret(s, args[1])
       ELSE mk(s, Concat(from_nullable(\A i \in 1..Len(args) : is_nullable(s, args[i])),
                         args))

mk_concat(s, args0) ==
    LET args == retain_non_empty(flatten_tag(s, TagConcat, args0))
    IN IF Len(args) = 0 THEN Ret(s, EMPTY_STRING)
       ELSE IF Len(args) = 1 THEN Ret(s, args[1])
       ELSE IF \E i \in 1..Len(args) : args[i] = NO_MATCH THEN Ret(s, NO_MATCH)
       ELSE mk(s, Concat(from_nullable(\A i \in 1..Len(args) : is_nullable(s, args[i])),
                         args))

\* mk_not that does not look for a Not record under e
mk_not_no_unwrap(s, e) ==
    IF e = EMPTY_STRING THEN Ret(s, NON_EMPTY_STRING)
    ELSE IF e = NON_EMPTY_STRING THEN Ret(s, EMPTY_STRING)
    ELSE IF e = ANY_STRING THEN Ret(s, NO_MATCH)
    ELSE IF e = NO_MATCH THEN Ret(s, ANY_STRING)
    ELSE mk(s, Not(from_nullable(~expr_nullable(get(s, e))), e))

mk_not(s, e) ==
    IF e = EMPTY_STRING THEN Ret(s, NON_EMPTY_STRING)
    ELSE IF e = NON_EMPTY_STRING THEN Ret(s, EMPTY_STRING)
    ELSE IF e = ANY_STRING THEN Ret(s, NO_MATCH)
    ELSE IF e = NO_MATCH THEN Ret(s, ANY_STRING)
    ELSE LET n == get(s, e)
         IN IF n.tag = TagNot THEN Ret(s, n.e)
            ELSE mk(s, Not(from_nullable(~expr_nullable(n)), e))

(***************************************************************************)
(* ExprSet::new: the five reserved records, inserted in order into an      *)
(* empty heap; each insertion must yield the reserved Ref.                 *)
(***************************************************************************)
words_for(asz) == (asz + 31) \div 32

\* the reserved records with AnyString's NULLABLE flag left out
new_inserts_unflagged(aw) ==
    << <<serialize(EmptyString), EMPTY_STRING>>,
       <<serialize(NoMatch), NO_MATCH>>,
       <<serialize(ByteSet([i \in 1..aw |-> U32_MAX])), ANY_BYTE>>,
       <<serialize(Repeat(ZERO, ANY_BYTE, W(0), U32_MAX)), ANY_STRING>>,
       <<serialize(Repeat(ZERO, ANY_BYTE, W(1), U32_MAX)), NON_EMPTY_STRING>> >>

new_inserts(aw) ==
    << <<serialize(EmptyString), EMPTY_STRING>>,
       <<serialize(NoMatch), NO_MATCH>>,
       <<serialize(ByteSet([i \in 1..aw |-> U32_MAX])), ANY_BYTE>>,
       <<serialize(Repeat(NULLABLE, ANY_BYTE, W(0), U32_MAX)), ANY_STRING>>,
       <<serialize(Repeat(ZERO, ANY_BYTE, W(1), U32_MAX)), NON_EMPTY_STRING>> >>

RECURSIVE new_loop(_, _, _)
new_loop(inserts, i, st) ==
    IF i > Len(inserts) \/ st.panic THEN st
    ELSE LET r == insert(st.exprs, inserts[i][1])
         IN new_loop(inserts, i + 1,
                     [exprs |-> r.exprs, panic |-> r.ref # inserts[i][2],
                      ins |-> st.ins \o r.ins])

new(asz) ==
    new_loop(new_inserts(words_for(asz)), 1,
             [exprs |-> <<>>, panic |-> FALSE, ins |-> <<>>])

len(s) == Len(s)

(***************************************************************************)
(* Inputs of the constructor calls.                                        *)
(***************************************************************************)
Bytes == {97, 98}

U32Vals == {W(0), W(1), W(2), U32_MAX}

\* the word with only bit k (0..31) set
BitWord(k) == IF k < 16 THEN <<0, 2 ^ k>> ELSE <<2 ^ (k - 16), 0>>

AllZeros(aw) == [i \in 1..aw |-> W(0)]

AllOnes(aw) == [i \in 1..aw |-> U32_MAX]

SingleBit(aw, b) == [i \in 1..aw |-> IF i - 1 = b \div 32 THEN BitWord(b % 32) ELSE W(0)]

\* the last bitmap is one word short: mk_byte_set's assertion fails on it
Bitmaps(aw) == {AllZeros(aw), AllOnes(aw), SingleBit(aw, 97), AllZeros(aw - 1)}

Refs(s) == 1..Len(s)

ArgLists(s) == UNION {[1..k -> Refs(s)] : k \in 0..MaxArgs}

Range(f) == {f[i] : i \in DOMAIN f}

(***************************************************************************)
(* State: the store (exprs), every word sequence ever handed to the heap's *)
(* insert (issued), whether the build checks arithmetic overflow           *)
(* (overflow_checks), whether the program has panicked, and the call that  *)
(* has just returned to the caller (last): its name, its arguments, the    *)
(* Ref it returned and len() before it.  The caller takes the result and   *)
(* goes on (Proceed) before it makes the next call.                        *)
(***************************************************************************)
NoCall ==
    [op |-> "none", args |-> <<>>, min |-> W(0), max |-> W(0), b |-> 0, bits |-> <<>>,
     ret |-> INVALID, len0 |-> 0]

Init ==
    LET st == new(AlphabetSize)
    IN /\ alphabet_size = AlphabetSize
       /\ alphabet_words = words_for(AlphabetSize)
       /\ overflow_checks \in BOOLEAN
       /\ exprs = st.exprs
       /\ panicked = st.panic
       /\ issued = Range(st.ins)
       /\ last = [NoCall EXCEPT !.op = "new"]

CanCall == ~panicked /\ last.op \in {"new", "none"} /\ Len(exprs) < MaxLen

\* the effect of a call with result r
Returns(r, call) ==
    /\ exprs' = r.exprs
    /\ panicked' = r.panic
    /\ issued' = issued \cup Range(r.ins)
    /\ last' = [call EXCEPT !.ret = r.ref, !.len0 = Len(exprs)]
    /\ UNCHANGED <<alphabet_size, alphabet_words, overflow_checks>>

Call(op, args) == [NoCall EXCEPT !.op = op, !.args = args]

MkByte ==
    /\ CanCall
    /\ \E b \in Bytes :
         Returns(mk_byte(exprs, b), [NoCall EXCEPT !.op = "mk_byte", !.b = b])

MkByteSet ==
    /\ CanCall
    /\ \E bits \in Bitmaps(alphabet_words) :
         Returns(mk_byte_set(exprs, alphabet_words, bits),
                 [NoCall EXCEPT !.op = "mk_byte_set", !.bits = bits])

MkRepeat ==
    /\ CanCall
    /\ \E e \in Refs(exprs), min \in U32Vals, max \in U32Vals :
         Returns(mk_repeat(exprs, e, min, max, overflow_checks),
                 [NoCall EXCEPT !.op = "mk_repeat", !.args = <<e>>, !.min = min,
                                !.max = max])

MkStar ==
    /\ CanCall
    /\ \E e \in Refs(exprs) : Returns(mk_star(exprs, e, overflow_checks), Call("mk_star", <<e>>))

MkPlus ==
    /\ CanCall
    /\ \E e \in Refs(exprs) : Returns(mk_plus(exprs, e, overflow_checks), Call("mk_plus", <<e>>))

MkOr ==
    /\ CanCall
    /\ \E args \in ArgLists(exprs) : Returns(mk_or(exprs, args), Call("mk_or", args))

MkAnd ==
    /\ CanCall
    /\ \E args \in ArgLists(exprs) : Returns(mk_and(exprs, args), Call("mk_and", args))

MkConcat ==
    /\ CanCall
    /\ \E args \in ArgLists(exprs) : Returns(mk_concat(exprs, args), Call("mk_concat", args))

MkNot ==
    /\ CanCall
    /\ \E e \in Refs(exprs) : Returns(mk_not(exprs, e), Call("mk_not", <<e>>))

\* the caller has taken the returned Ref
Proceed ==
    /\ ~panicked
    /\ last.op \notin {"new", "none"}
    /\ last' = NoCall
    /\ UNCHANGED <<exprs, alphabet_size, alphabet_words, overflow_checks, issued, panicked>>

Next ==
    \/ MkByte
    \/ MkByteSet
    \/ MkRepeat
    \/ MkStar
    \/ MkPlus
    \/ MkOr
    \/ MkAnd
    \/ MkConcat
    \/ MkNot
    \/ Proceed

Spec == Init /\ [][Next]_vars

(***************************************************************************)
(* Properties.                                                             *)
(***************************************************************************)
Called == last.op \notin {"new", "none"}

Grew == Len(exprs) > last.len0

\* the call recorded in c, made on store s
Redo(s, c) ==
    CASE c.op = "mk_byte" -> mk_byte(s, c.b)
      [] c.op = "mk_byte_set" -> mk_byte_set(s, alphabet_words, c.bits)
      [] c.op = "mk_repeat" -> mk_repeat(s, c.args[1], c.min, c.max, overflow_checks)
      [] c.op = "mk_star" -> mk_star(s, c.args[1], overflow_checks)
      [] c.op = "mk_plus" -> mk_plus(s, c.args[1], overflow_checks)
      [] c.op = "mk_or" -> mk_or(s, c.args)
      [] c.op = "mk_and" -> mk_and(s, c.args)
      [] c.op = "mk_concat" -> mk_concat(s, c.args)
      [] c.op = "mk_not" -> mk_not(s, c.args[1])

RECURSIVE sem_nullable(_, _)
\* reference nullability: does the language of a contain the empty sequence,
\* computed by recursion over get
sem_nullable(s, a) ==
    LET x == get(s, a)
    IN CASE x.tag = TagEmptyString -> TRUE
         [] x.tag \in {TagNoMatch, TagByte, TagByteSet} -> FALSE
         [] x.tag = TagNot -> ~sem_nullable(s, x.e)
         [] x.tag = TagRepeat -> x.min = W(0) \/ sem_nullable(s, x.e)
         [] x.tag \in {TagConcat, TagAnd} ->
                \A i \in 1..Len(x.es) : sem_nullable(s, x.es[i])
         [] x.tag = TagOr -> \E i \in 1..Len(x.es) : sem_nullable(s, x.es[i])

\* C1: for every Ref of the store, the reserved ones included, is_nullable
\* equals the reference recursive nullability computed over get.
C1_NullableMatchesReference ==
    \A a \in Refs(exprs) : is_nullable(exprs, a) = sem_nullable(exprs, a)

\* C2: no two Refs hold the same words, len() is the number of distinct word
\* sequences ever inserted, and a call repeated with the same arguments
\* returns the same Ref and leaves the store as it is; on a fresh store
\* mk_concat([mk_byte(97), mk_byte(98)]) grows len() by 3, and by 0 when the
\* three calls are made again.
C2_UniqueRecords ==
    /\ \A i, j \in Refs(exprs) : exprs[i] = exprs[j] => i = j
    /\ len(exprs) = Cardinality(issued)
    /\ Called /\ ~panicked =>
          LET again == Redo(exprs, last)
          IN again.ref = last.ret /\ again.exprs = exprs /\ ~again.panic
    /\ LET a1 == mk_byte(exprs, 97)
           b1 == mk_byte(a1.exprs, 98)
           c1 == mk_concat(b1.exprs, <<a1.ref, b1.ref>>)
           a2 == mk_byte(c1.exprs, 97)
           b2 == mk_byte(a2.exprs, 98)
           c2 == mk_concat(b2.exprs, <<a2.ref, b2.ref>>)
       IN /\ c2.ref = c1.ref
          /\ len(c2.exprs) = len(c1.exprs)
          /\ last.op = "new" => len(c1.exprs) = len(exprs) + 3

\* a call that built a Concat record has been made again and returned the
\* same Ref without growing the store
C2_Witness ==
    /\ last.op = "mk_concat"
    /\ Len(last.args) >= 2
    /\ last.ret > NON_EMPTY_STRING
    /\ get_tag(exprs, last.ret) = TagConcat
    /\ ~Grew

\* C3: right after new, len() is 5; in every state Ref 1 decodes to
\* EmptyString, Ref 2 to NoMatch, Ref 3 to the ByteSet of alphabet_words words
\* with every bit set, Ref 4 to Repeat(Ref 3, 0, u32::MAX) flagged nullable
\* and Ref 5 to Repeat(Ref 3, 1, u32::MAX) flagged non-nullable.
C3_ReservedRefs ==
    /\ last.op = "new" => len(exprs) = 5
    /\ len(exprs) >= 5
    /\ get(exprs, EMPTY_STRING) = EmptyString
    /\ get(exprs, NO_MATCH) = NoMatch
    /\ LET x == get(exprs, ANY_BYTE)
       IN /\ x.tag = TagByteSet
          /\ Len(x.s) = alphabet_words
          /\ alphabet_words * 32 >= alphabet_size
          /\ alphabet_words * 32 < alphabet_size + 32
          /\ \A i \in 1..Len(x.s) : x.s[i] = U32_MAX
    /\ get(exprs, ANY_STRING) = Repeat(NULLABLE, ANY_BYTE, W(0), U32_MAX)
    /\ is_nullable(exprs, ANY_STRING)
    /\ get(exprs, NON_EMPTY_STRING) = Repeat(ZERO, ANY_BYTE, W(1), U32_MAX)
    /\ ~is_nullable(exprs, NON_EMPTY_STRING)

\* constructor calls have appended records behind the five reserved ones
C3_Witness == Called /\ Grew /\ len(exprs) >= 7

\* C4: mk_and([e, EmptyString]) returns EmptyString when the language of e
\* contains the empty sequence and NoMatch when it does not.
C4_AndWithEmptyString ==
    last.op = "mk_and" /\ Len(last.args) = 2 /\ last.args[2] = EMPTY_STRING =>
        last.ret = IF sem_nullable(exprs, last.args[1]) THEN EMPTY_STRING ELSE NO_MATCH

\* C5 as stated: mk_repeat(e, k, k) returns EmptyString for every e, NoMatch
\* included, and every k, and appends nothing.
C5_RepeatExactIsEmpty ==
    last.op = "mk_repeat" /\ last.min = last.max =>
        last.ret = EMPTY_STRING /\ ~Grew

\* C5 amended: mk_repeat(e, k, k) returns EmptyString for every e other than
\* NoMatch and every k, and for NoMatch when k = 0; mk_repeat(NoMatch, k, k)
\* with k >= 1 returns NoMatch; no record is appended and the call does not
\* panic.
C5_RepeatExactAmended ==
    last.op = "mk_repeat" /\ last.min = last.max =>
        /\ last.ret = IF last.args[1] = NO_MATCH /\ last.min # W(0)
                      THEN NO_MATCH ELSE EMPTY_STRING
        /\ ~Grew
        /\ ~panicked

\* mk_repeat(e, k, k) with k >= 1 has returned EmptyString for a nullable
\* Repeat record e built by an earlier call
C5_Witness ==
    /\ last.op = "mk_repeat"
    /\ last.min = last.max
    /\ last.min # W(0)
    /\ last.args[1] > NON_EMPTY_STRING
    /\ is_nullable(exprs, last.args[1])
    /\ last.ret = EMPTY_STRING

\* mk_or or mk_and, by name
Nary(s, op, args) == IF op = "mk_or" THEN mk_or(s, args) ELSE mk_and(s, args)

\* the argument lists of at most MaxArgs Refs with the same set of Refs as args
SameSetLists(args) ==
    {l \in UNION {[1..k -> Range(args)] : k \in 0..MaxArgs} : Range(l) = Range(args)}

\* C6: the Ref mk_or (mk_and) returns depends only on the set of its argument
\* Refs: after a call, the same constructor on any list with the same set of
\* Refs, in any order and with any multiplicity, returns the same Ref; and
\* mk_or([a, a]) = a, mk_and([a, a]) = a.
C6_OrAndDependOnArgSet ==
    last.op \in {"mk_or", "mk_and"} =>
        /\ \A l \in SameSetLists(last.args) : Nary(exprs, last.op, l).ref = last.ret
        /\ Len(last.args) = 2 /\ last.args[1] = last.args[2] => last.ret = last.args[1]

\* mk_or([a, b, a]) has returned the Or record that an earlier call built
C6_Witness ==
    /\ last.op = "mk_or"
    /\ Len(last.args) = 3
    /\ last.args[1] = last.args[3]
    /\ last.args[1] > last.args[2]
    /\ get_tag(exprs, last.ret) = TagOr
    /\ get_args(exprs, last.ret) = <<last.args[2], last.args[1]>>
    /\ ~Grew

\* C7: after ab = mk_or([a, b]), for every c of the store
\* mk_or([ab, c]) = mk_or([a, b, c]) = mk_or([a, mk_or([b, c])]); the same for
\* mk_and.
C7_OrAndFlatten ==
    last.op \in {"mk_or", "mk_and"} /\ Len(last.args) = 2 =>
        \A c \in Refs(exprs) :
            LET a == last.args[1]
                b == last.args[2]
                l == Nary(exprs, last.op, <<last.ret, c>>)
                m == Nary(l.exprs, last.op, <<a, b, c>>)
                bc == Nary(m.exprs, last.op, <<b, c>>)
                r == Nary(bc.exprs, last.op, <<a, bc.ref>>)
            IN l.ref = m.ref /\ m.ref = r.ref

\* mk_or([a, b]) with a an Or record of the store has returned an Or record
\* that holds the children of a and b
C7_Witness ==
    /\ last.op = "mk_or"
    /\ Len(last.args) = 2
    /\ get_tag(exprs, last.args[1]) = TagOr
    /\ get_tag(exprs, last.ret) = TagOr
    /\ Len(get_args(exprs, last.ret)) = 3
    /\ Grew

\* C8: mk_or([a, NoMatch]) = a, mk_and([a, AnyString]) = a,
\* mk_concat([a, EmptyString]) = a and mk_concat([a]) = a for every a of the
\* store.
C8_Identities ==
    /\ last.op = "mk_or" /\ Len(last.args) = 2 /\ last.args[2] = NO_MATCH
          => last.ret = last.args[1]
    /\ last.op = "mk_and" /\ Len(last.args) = 2 /\ last.args[2] = ANY_STRING
          => last.ret = last.args[1]
    /\ last.op = "mk_concat" /\ Len(last.args) = 2 /\ last.args[2] = EMPTY_STRING
          => last.ret = last.args[1]
    /\ last.op = "mk_concat" /\ Len(last.args) = 1 => last.ret = last.args[1]

\* mk_concat([a, EmptyString]) has returned a, a Concat record of the store
C8_Witness ==
    /\ last.op = "mk_concat"
    /\ Len(last.args) = 2
    /\ last.args[2] = EMPTY_STRING
    /\ get_tag(exprs, last.args[1]) = TagConcat
    /\ last.ret = last.args[1]

\* C9: mk_or of a and AnyString returns AnyString, mk_and of a and NoMatch
\* returns NoMatch and mk_concat of a and NoMatch returns NoMatch, in either
\* argument order, and none appends a record.
C9_Annihilators ==
    /\ last.op = "mk_or" /\ Len(last.args) = 2 /\ ANY_STRING \in Range(last.args)
          => last.ret = ANY_STRING /\ ~Grew
    /\ last.op = "mk_and" /\ Len(last.args) = 2 /\ NO_MATCH \in Range(last.args)
          => last.ret = NO_MATCH /\ ~Grew
    /\ last.op = "mk_concat" /\ Len(last.args) = 2 /\ NO_MATCH \in Range(last.args)
          => last.ret = NO_MATCH /\ ~Grew

\* mk_concat([NoMatch, a]) has returned NoMatch for a Concat record a
C9_Witness ==
    /\ last.op = "mk_concat"
    /\ Len(last.args) = 2
    /\ last.args[1] = NO_MATCH
    /\ get_tag(exprs, last.args[2]) = TagConcat
    /\ last.ret = NO_MATCH

\* C10: after r = mk_not(a), mk_not(r) returns a and leaves the store as it
\* is.
C10_NotInvolution ==
    last.op = "mk_not" =>
        LET outer == mk_not(exprs, last.ret)
        IN outer.ref = last.args[1] /\ outer.exprs = exprs /\ ~outer.panic

\* the outer mk_not has been called on a Not record of the store and has
\* returned its child without growing the store
C10_Witness ==
    /\ last.op = "mk_not"
    /\ get_tag(exprs, last.args[1]) = TagNot
    /\ last.ret = get_args(exprs, last.args[1])[1]
    /\ ~Grew

\* lo + 2 <= hi on u32 values, without overflow
U32AtLeastTwoApart(lo, hi) == U32Gt(hi, lo) /\ U32Gt(hi, WrappingInc(lo))

\* C11: every stored Concat, Or and And record has at least two children,
\* every stored ByteSet record has a bit set, and every stored Repeat record
\* has lo + 2 <= hi.
C11_WellFormed ==
    \A r \in Refs(exprs) :
        LET x == get(exprs, r)
        IN /\ x.tag \in {TagConcat, TagOr, TagAnd} => Len(x.es) >= 2
           /\ x.tag = TagByteSet => \E i \in 1..Len(x.s) : x.s[i] # W(0)
           /\ x.tag = TagRepeat =>
                 /\ ~U32Gt(x.min, x.max)
                 /\ x.min # x.max
                 /\ WrappingInc(x.min) # x.max
                 /\ U32AtLeastTwoApart(x.min, x.max)

\* the store holds a Repeat record built by mk_repeat, and mk_or with a
\* repeated argument has just stored an Or record
C11_Witness ==
    /\ last.op = "mk_or"
    /\ Len(last.args) = 3
    /\ Cardinality(Range(last.args)) = 2
    /\ Grew
    /\ get_tag(exprs, last.ret) = TagOr
    /\ \E r \in Refs(exprs) : r > NON_EMPTY_STRING /\ get_tag(exprs, r) = TagRepeat

\* C12: a step leaves every Ref issued before it on the same record (get,
\* get_args and is_nullable unchanged) and never decreases len().
C12_Frame ==
    [][/\ len(exprs') >= len(exprs)
       /\ \A r \in Refs(exprs) :
             /\ exprs'[r] = exprs[r]
             /\ is_nullable(exprs', r) = is_nullable(exprs, r)
             /\ get_args(exprs', r) = get_args(exprs, r)
             /\ get(exprs', r) = get(exprs, r)]_vars

\* a call has appended a record behind a record that an earlier call appended
C12_Witness ==
    /\ Called
    /\ Grew
    /\ last.ret = len(exprs)
    /\ last.len0 > NON_EMPTY_STRING

\* C13: mk_repeat(e, lo, hi) with lo > hi returns NoMatch for every e and all
\* 32-bit lo, hi, lo = u32::MAX included.
C13_RepeatReversedIsNoMatch ==
    last.op = "mk_repeat" /\ U32Gt(last.min, last.max) =>
        last.ret = NO_MATCH /\ ~panicked

\* C14: for e other than NoMatch and lo + 2 <= hi, mk_repeat(e, lo, hi) of an
\* e with is_nullable(e) is the Ref of mk_repeat(e, 0, hi) and is nullable;
\* otherwise it is a Repeat(e, lo, hi) record that is nullable iff lo = 0.
\* mk_star of an e with is_nullable(e) is nullable; mk_plus of an e without
\* is not.
C14_RepeatClampsNullable ==
    /\ /\ last.op = "mk_repeat"
       /\ last.args[1] # NO_MATCH
       /\ U32AtLeastTwoApart(last.min, last.max)
       => LET e == last.args[1]
              x == get(exprs, last.ret)
          IN /\ ~panicked
             /\ x.tag = TagRepeat
             /\ x.e = e
             /\ x.max = last.max
             /\ IF is_nullable(exprs, e)
                THEN /\ mk_repeat(exprs, e, W(0), last.max, overflow_checks).ref = last.ret
                     /\ x.min = W(0)
                     /\ is_nullable(exprs, last.ret)
                ELSE /\ x.min = last.min
                     /\ is_nullable(exprs, last.ret) <=> last.min = W(0)
    /\ last.op = "mk_star" /\ is_nullable(exprs, last.args[1])
          => is_nullable(exprs, last.ret)
    /\ last.op = "mk_plus" /\ ~is_nullable(exprs, last.args[1])
          => ~is_nullable(exprs, last.ret)

\* mk_repeat(e, 1, hi) of a nullable record e built by an earlier call has
\* stored a nullable Repeat(e, 0, hi)
C14_Witness ==
    /\ last.op = "mk_repeat"
    /\ last.args[1] > NON_EMPTY_STRING
    /\ is_nullable(exprs, last.args[1])
    /\ last.min = W(1)
    /\ U32AtLeastTwoApart(last.min, last.max)
    /\ Grew
    /\ get(exprs, last.ret).min = W(0)

\* C15: for a bitmap of alphabet_words words, mk_byte_set of all zeros
\* returns NoMatch and of all ones returns Ref 3, both without appending; a
\* bitmap with the single bit b set gives a ByteSet record whose Ref is not
\* the Ref of mk_byte(b).
C15_ByteSetBoundaries ==
    last.op = "mk_byte_set" /\ Len(last.bits) = alphabet_words =>
        /\ last.bits = AllZeros(alphabet_words) => last.ret = NO_MATCH /\ ~Grew
        /\ last.bits = AllOnes(alphabet_words) => last.ret = ANY_BYTE /\ ~Grew
        /\ \A b \in Bytes \cup {97} :
              last.bits = SingleBit(alphabet_words, b) =>
                  LET mb == mk_byte(exprs, b)
                  IN /\ get(exprs, last.ret) = ByteSet(last.bits)
                     /\ mb.ref # last.ret
                     /\ get(mb.exprs, mb.ref) = Byte(b)

\* mk_byte_set of the single bit 97 has stored a ByteSet record in a store
\* that already holds the record of mk_byte(97)
C15_Witness ==
    /\ last.op = "mk_byte_set"
    /\ last.bits = SingleBit(alphabet_words, 97)
    /\ Grew
    /\ get_tag(exprs, last.ret) = TagByteSet
    /\ \E r \in Refs(exprs) : get(exprs, r) = Byte(97)

RECURSIVE Spliced(_, _)
\* args with every Concat argument replaced by its children, in order
Spliced(s, args) ==
    IF args = <<>> THEN <<>>
    ELSE (IF get_tag(s, Head(args)) = TagConcat THEN get_args(s, Head(args))
          ELSE <<Head(args)>>) \o Spliced(s, Tail(args))

\* C16: whenever mk_concat returns a Concat record, its children are the
\* input list with Concat arguments replaced by their children and every
\* EmptyString removed, in the original order; no stored Concat record has a
\* child that is EmptyString, NoMatch or a Concat.
C16_ConcatKeepsOrder ==
    /\ last.op = "mk_concat" /\ get_tag(exprs, last.ret) = TagConcat =>
          get_args(exprs, last.ret) =
              SelectSeq(Spliced(exprs, last.args), LAMBDA e : e # EMPTY_STRING)
    /\ \A r \in Refs(exprs) :
          get_tag(exprs, r) = TagConcat =>
              \A i \in 1..Len(get_args(exprs, r)) :
                  LET c == get_args(exprs, r)[i]
                  IN c \notin {EMPTY_STRING, NO_MATCH} /\ get_tag(exprs, c) # TagConcat

\* mk_concat of a Concat record, EmptyString and a further Ref has stored a
\* Concat record whose children are not in ascending order
C16_Witness ==
    /\ last.op = "mk_concat"
    /\ Len(last.args) = 3
    /\ get_tag(exprs, last.args[1]) = TagConcat
    /\ last.args[2] = EMPTY_STRING
    /\ Grew
    /\ get_tag(exprs, last.ret) = TagConcat
    /\ Len(get_args(exprs, last.ret)) = 3
    /\ get_args(exprs, last.ret)[1] > get_args(exprs, last.ret)[2]

\* C17: every child Ref stored in a Not, Repeat, Concat, Or or And record is
\* between 1 and len() and below the Ref of the record that holds it.
C17_ChildrenBelowParent ==
    \A r \in Refs(exprs) :
        \A i \in 1..Len(get_args(exprs, r)) :
            LET c == get_args(exprs, r)[i]
            IN c >= 1 /\ c <= len(exprs) /\ c < r

\* the store holds a record whose child is itself a record built by a call
C17_Witness ==
    \E r \in Refs(exprs) :
        \E i \in 1..Len(get_args(exprs, r)) :
            /\ get_args(exprs, r)[i] > NON_EMPTY_STRING
            /\ get_args(exprs, get_args(exprs, r)[i]) # <<>>

\* strictly ascending sequence of Refs
Ascending(es) == \A i \in 1..Len(es) - 1 : es[i] < es[i + 1]

\* C18: the children of every stored Or record are strictly ascending and
\* hold no NoMatch, no AnyString and no Or record; those of every stored And
\* record are strictly ascending and hold no AnyString, no NoMatch, no
\* EmptyString and no And record; mk_or (mk_and) of the children of a stored
\* Or (And) record r returns r.
C18_OrAndCanonical ==
    \A r \in Refs(exprs) :
        LET es == get_args(exprs, r)
        IN /\ get_tag(exprs, r) = TagOr =>
                 /\ Ascending(es)
                 /\ \A i \in 1..Len(es) :
                       es[i] \notin {NO_MATCH, ANY_STRING} /\ get_tag(exprs, es[i]) # TagOr
                 /\ mk_or(exprs, es).ref = r
                 /\ mk_or(exprs, es).exprs = exprs
           /\ get_tag(exprs, r) = TagAnd =>
                 /\ Ascending(es)
                 /\ \A i \in 1..Len(es) :
                       /\ es[i] \notin {ANY_STRING, NO_MATCH, EMPTY_STRING}
                       /\ get_tag(exprs, es[i]) # TagAnd
                 /\ mk_and(exprs, es).ref = r
                 /\ mk_and(exprs, es).exprs = exprs

\* mk_and has just stored an And record beside a stored Or record, from
\* arguments given in descending order
C18_Witness ==
    /\ last.op = "mk_and"
    /\ Len(last.args) = 2
    /\ last.args[1] > last.args[2]
    /\ Grew
    /\ get_tag(exprs, last.ret) = TagAnd
    /\ \E r \in Refs(exprs) : get_tag(exprs, r) = TagOr

====
